---- MODULE Spec2Model ----
(***************************************************************************)
(* The task-execution core of the xxl-job executor (executor.go): the      *)
(* registry of task definitions (regList), the registry of running tasks   *)
(* (runList), the /run and /kill handlers serialised by e.mu, the          *)
(* goroutine launched per admitted run (Task.Run) and its completion       *)
(* callback.                                                               *)
(*                                                                         *)
(* A *Task is a heap object: regList and runList hold object identities,   *)
(* and objs maps an identity to the object's fields.  runTask takes the    *)
(* object out of regList and writes the request into it, so every run of   *)
(* one task name works on the same object.                                 *)
(***************************************************************************)
EXTENDS Integers, Sequences, FiniteSets, TLC

\* ------------------------------------------------------------------ bounds
MaxCtx == 2     \* run requests that get as far as creating a context
MaxObj == 2     \* calls of RegTask
NumReq == 2     \* inbound requests in flight at the same time
MaxBeat == 3    \* registration attempts whose outcome is remembered

\* ------------------------------------------------------------ input values
Names == {"a", "b"}
Jobs == {0, 1}
coverEarly == "COVER_EARLY"
\* executorBlockStrategy: the override value, another policy, a value that
\* differs from the override value in case only, and the empty string.
Strategies == {coverEarly, "SERIAL_EXECUTION", "cover_early", ""}
Timeouts == {0, 1}
Codes == {200, 500}

Reqs == 1 .. NumReq
Ctxs == 1 .. MaxCtx
Objs == 1 .. MaxObj
NoObj == 0      \* a nil *Task
NoCtx == 0      \* a nil context / cancel function
Unset == -1     \* oldTask before line 124 has run

\* Int64ToStr: the decimal text of a job id (the key of runList).
DigitStr == <<"0", "1", "2", "3", "4", "5", "6", "7", "8", "9">>
Int64ToStr(n) == DigitStr[n + 1]
Keys == {Int64ToStr(j) : j \in Jobs}

\* A RunReq as decoded from the body of /run.
RunReqs == [JobID : Jobs, ExecutorHandler : Names,
            ExecutorTimeout : Timeouts, ExecutorBlockStrategy : Strategies]
\* What a *RunReq kept in Task.Param is read for later: the job id that
\* returnCall puts in the callback body.
ParamOf(p) == [JobID |-> p.JobID]
\* &RunReq{} / &killReq{}: the zero value a failed Unmarshal leaves behind.
ZeroReq == [JobID |-> 0, ExecutorHandler |-> "",
            ExecutorTimeout |-> 0, ExecutorBlockStrategy |-> ""]
\* The bodies of POST /run: a RunReq in JSON, or text json.Unmarshal rejects.
RunBodies == [ok : {TRUE}, param : RunReqs] \cup {[ok |-> FALSE, param |-> ZeroReq]}
\* The bodies of POST /kill: {"jobID": j}, or text json.Unmarshal rejects.
KillBodies == [ok : {TRUE}, param : {[ZeroReq EXCEPT !.JobID = j] : j \in Jobs}]
                  \cup {[ok |-> FALSE, param |-> ZeroReq]}
\* &Task{}: the object RegTask creates (fn apart, every field zero).
ZeroTask == [Id |-> 0, Name |-> "", Ext |-> NoCtx, Cancel |-> NoCtx,
             Param |-> ParamOf(ZeroReq)]

\* Response envelopes.
Panicked == [code |-> -1, msg |-> "panic"]  \* the handler panicked: no envelope is written
returnCall(code, msg) == [code |-> code, msg |-> msg]
returnGeneral == [code |-> 200, msg |-> ""]
returnKill(code) == [code |-> code, msg |-> ""]

IdleReq == [pc |-> "idle", kind |-> "none", ok |-> TRUE, param |-> ZeroReq,
            task |-> NoObj, ctx |-> NoCtx, oldTask |-> Unset]
NoInst == [pc |-> "none", job |-> 0, task |-> NoObj, ext |-> NoCtx]
\* out: no request was answered by this step.
NoResp == [kind |-> "none", ok |-> TRUE, param |-> ZeroReq, code |-> 0, msg |-> ""]
NoSent == [inst |-> 0, job |-> 0, jobID |-> 0, code |-> 0, err |-> FALSE]
NewCtx == [deadline |-> FALSE, expired |-> FALSE, cancels |-> 0]

VARIABLES
    serving,   \* Run() has started the HTTP server
    mu,        \* e.mu: 0 when free, else the request holding it
    regList,   \* e.regList.data: task name -> *Task
    runList,   \* e.runList.data: Int64ToStr(job id) -> *Task
    objs,      \* the heap of Task objects
    nobj,      \* Task objects allocated so far
    nctx,      \* contexts created so far
    ctxs,      \* per context: has a deadline, deadline passed, calls of its cancel function
    inst,      \* per launched goroutine (named by the context its request created)
    req,       \* per inbound request: position in runTask / killTask and its locals
    runOwner,  \* history: the goroutine whose admission stored the runList entry
    out,       \* the request answered by the step just taken, with its envelope (NoResp: none)
    sent,      \* the body posted to /api/callback by the step just taken (jobID, code),
               \* the goroutine posting it, the job it was admitted for and whether
               \* e.post returned an error (NoSent: none)
    hb         \* the goroutine of e.registry(): its position, its timer t and the
               \* channel t.C, e.hasReg, and the outcomes of its latest attempts

execVars == <<serving, mu, regList, runList, objs, nobj, nctx, ctxs, inst, req, runOwner, out, sent>>
vars == <<serving, mu, regList, runList, objs, nobj, nctx, ctxs, inst, req, runOwner, out, sent, hb>>

\* ---------------------------------------------------------------- taskList
Exists(list, key) == list[key] # NoObj
Get(list, key) == list[key]
Set(list, key, val) == [list EXCEPT ![key] = val]
Del(list, key) == [list EXCEPT ![key] = NoObj]

\* ----------------------------------------------------------------- context
Done(c) == ctxs[c].cancels > 0 \/ ctxs[c].expired
\* calling a context's CancelFunc
CallCancel(cs, c) == [cs EXCEPT ![c].cancels = @ + 1]
\* A context whose error is that of the latest trigger.
ErrOfLastTrigger(cs, c) ==
    IF cs[c].cancels > 0 THEN "context canceled"
    ELSE IF cs[c].expired THEN "context deadline exceeded" ELSE ""
\* ctx.Err(): the first trigger decides it.  The timer only fires on a
\* context that is not done, and a cancel call on a done context changes
\* nothing, so expired tells that the timer came first.
Err(cs, c) ==
    IF cs[c].expired THEN "context deadline exceeded"
    ELSE IF cs[c].cancels > 0 THEN "context canceled" ELSE ""

\* ------------------------------------------------------------- e.registry
Interval == 20  \* t.Reset(time.Second * time.Duration(20))
NoTick == -1    \* t.C is empty
\* How one registration attempt ends: e.post returns an error, the body can
\* not be read, the answer's code is not 200, or the answer's code is 200.
HbFailures == {"neterr", "readerr", "code"}
HbOutcomes == HbFailures \cup {"ok"}
\* go e.registry(): t := time.NewTimer(0), the loop waits at <-t.C.
HbStart == [pc |-> "wait", armed |-> TRUE, dur |-> 0, tC |-> NoTick,
            hasReg |-> FALSE, beats |-> 0, gap |-> NoTick, log |-> <<>>]

Init ==
    /\ hb = HbStart
    /\ serving = FALSE
    /\ mu = 0
    /\ regList = [n \in Names |-> NoObj]
    /\ runList = [k \in Keys |-> NoObj]
    /\ objs = [o \in Objs |-> ZeroTask]
    /\ nobj = 0
    /\ nctx = 0
    /\ ctxs = [c \in Ctxs |-> NewCtx]
    /\ inst = [c \in Ctxs |-> NoInst]
    /\ req = [r \in Reqs |-> IdleReq]
    /\ runOwner = [k \in Keys |-> NoCtx]
    /\ out = NoResp
    /\ sent = NoSent

\* ------------------------------------------------------------------ RegTask
\* Tasks are registered between Init() and Run().  Names are opaque, so the
\* first name to be registered is taken to be "a".
RegTask(pattern) ==
    /\ ~serving
    /\ pattern # "a" => Exists(regList, "a")
    /\ nobj < MaxObj
    /\ nobj' = nobj + 1
    /\ regList' = Set(regList, pattern, nobj + 1)
    /\ UNCHANGED <<hb, serving, mu, runList, objs, nctx, ctxs, inst, req, runOwner>>
    /\ out' = NoResp
    /\ sent' = NoSent

\* Run(): the server starts listening on /run, /kill and /log.
Run ==
    /\ ~serving
    /\ serving' = TRUE
    /\ UNCHANGED <<hb, mu, regList, runList, objs, nobj, nctx, ctxs, inst, req, runOwner>>
    /\ out' = NoResp
    /\ sent' = NoSent

\* --------------------------------------------------------- inbound requests
\* A Lock() that lets a second request in while e.mu is held.
CanLockNoExclusion(r) == TRUE

\* e.mu.Lock() returns only when nobody holds e.mu.
CanLock(r) == mu = 0

\* A registry check that lets every task name through.
NotRegisteredNever(name) == FALSE

\* if !e.regList.Exists(param.ExecutorHandler)
NotRegistered(name) == ~Exists(regList, name)

\* writer.Write(resp) and return: the deferred Unlock runs.
Respond(r, kind, ok, param, resp) ==
    /\ req' = [req EXCEPT ![r] = IdleReq]
    /\ out' = [kind |-> kind, ok |-> ok, param |-> param,
               code |-> resp.code, msg |-> resp.msg]

\* ------------------------------------------------------------------ runTask
\* A POST /run is served: Lock, read and parse the body (ok = FALSE is a body
\* json.Unmarshal rejects, which leaves param zero), registry check, take the
\* Task object out of regList and give it a new context:
\* task.Ext, task.Cancel = context.WithTimeout / WithCancel.
\* ExecutorTimeout is not read again, and req keeps param without it.
\* Were task nil, task.Ext = .. would panic: the deferred Unlock runs and the
\* HTTP server drops the connection without an envelope.
RunBegin(r, body) ==
    /\ serving
    /\ req[r].pc = "idle"
    /\ CanLock(r)
    /\ LET ok == body.ok
           param == body.param
           task == Get(regList, param.ExecutorHandler)
           c == nctx + 1
       IN IF ~ok
          THEN /\ Respond(r, "run", ok, param, returnCall(500, "params err"))
               /\ UNCHANGED <<mu, nctx, ctxs, objs>>
          ELSE IF NotRegistered(param.ExecutorHandler)
          THEN /\ Respond(r, "run", ok, [param EXCEPT !.ExecutorTimeout = 0],
                          returnCall(500, "Task not registered"))
               /\ UNCHANGED <<mu, nctx, ctxs, objs>>
          ELSE IF task = NoObj
          THEN /\ Respond(r, "run", ok, [param EXCEPT !.ExecutorTimeout = 0], Panicked)
               /\ UNCHANGED <<mu, nctx, ctxs, objs>>
          ELSE /\ nctx < MaxCtx
               /\ nctx' = c
               /\ ctxs' = [ctxs EXCEPT ![c].deadline = param.ExecutorTimeout > 0]
               /\ objs' = [objs EXCEPT ![task].Ext = c, ![task].Cancel = c]
               /\ req' = [req EXCEPT ![r] = [IdleReq EXCEPT !.pc = "r_fields",
                             !.kind = "run", !.task = task, !.ctx = c,
                             !.param = [param EXCEPT !.ExecutorTimeout = 0]]]
               /\ mu' = r
               /\ out' = NoResp
    /\ UNCHANGED <<hb, serving, regList, runList, nobj, inst, runOwner>>
    /\ sent' = NoSent

\* task.Id, task.Name, task.Param = ...
RunFields(r) ==
    /\ req[r].pc = "r_fields"
    /\ objs' = [objs EXCEPT ![req[r].task].Id = req[r].param.JobID,
                            ![req[r].task].Name = req[r].param.ExecutorHandler,
                            ![req[r].task].Param = ParamOf(req[r].param)]
    /\ req' = [req EXCEPT ![r].pc = "r_exists"]
    /\ UNCHANGED <<hb, serving, mu, regList, runList, nobj, nctx, ctxs, inst, runOwner>>
    /\ out' = NoResp
    /\ sent' = NoSent

\* The key runTask uses from here on: Int64ToStr(task.Id).
TaskKey(r) == Int64ToStr(objs[req[r].task].Id)

\* A decision that overrides unless the policy is a known other one.
OverridesUnlessSerial(strategy) == strategy # "SERIAL_EXECUTION"
\* param.ExecutorBlockStrategy == coverEarly
Overrides(strategy) == strategy = coverEarly

\* if e.runList.Exists(..) { if strategy == coverEarly {..} else { 500 } }
RunExists(r) ==
    /\ req[r].pc = "r_exists"
    /\ IF Exists(runList, TaskKey(r))
       THEN IF Overrides(req[r].param.ExecutorBlockStrategy)
            THEN /\ req' = [req EXCEPT ![r].pc = "r_override"]
                 /\ UNCHANGED mu
                 /\ out' = NoResp
            ELSE /\ Respond(r, "run", TRUE, req[r].param,
                            returnCall(500, "There are tasks running"))
                 /\ mu' = 0
       ELSE /\ req' = [req EXCEPT ![r].pc = "r_admit"]
            /\ UNCHANGED mu
            /\ out' = NoResp
    /\ UNCHANGED <<hb, serving, regList, runList, objs, nobj, nctx, ctxs, inst, runOwner>>
    /\ sent' = NoSent

\* An override without the nil check: oldTask.Cancel() on a nil oldTask
\* panics.
RunOverrideNoNilCheck(r) ==
    /\ req[r].pc = "r_override"
    /\ LET oldTask == Get(runList, TaskKey(r))
       IN IF oldTask # NoObj
          THEN /\ ctxs' = CallCancel(ctxs, objs[oldTask].Cancel)
               /\ runList' = Del(runList, TaskKey(r))
               /\ runOwner' = [runOwner EXCEPT ![TaskKey(r)] = NoCtx]
               /\ req' = [req EXCEPT ![r].pc = "r_admit", ![r].oldTask = oldTask]
               /\ out' = NoResp
               /\ UNCHANGED mu
          ELSE /\ Respond(r, "run", TRUE, req[r].param, Panicked)
               /\ mu' = 0
               /\ UNCHANGED <<ctxs, runList, runOwner>>
    /\ UNCHANGED <<hb, serving, regList, objs, nobj, nctx, inst>>
    /\ sent' = NoSent

\* oldTask := e.runList.Get(..); if oldTask != nil { oldTask.Cancel(); Del }
RunOverride(r) ==
    /\ req[r].pc = "r_override"
    /\ LET oldTask == Get(runList, TaskKey(r))
       IN /\ IF oldTask # NoObj
             THEN /\ ctxs' = CallCancel(ctxs, objs[oldTask].Cancel)
                  /\ runList' = Del(runList, TaskKey(r))
                  /\ runOwner' = [runOwner EXCEPT ![TaskKey(r)] = NoCtx]
             ELSE UNCHANGED <<ctxs, runList, runOwner>>
          /\ req' = [req EXCEPT ![r].pc = "r_admit", ![r].oldTask = oldTask]
    /\ UNCHANGED <<hb, serving, mu, regList, objs, nobj, nctx, inst>>
    /\ out' = NoResp
    /\ sent' = NoSent

\* An admission that keeps e.mu until the handler is done.
RunAdmitHoldingLock(r) ==
    /\ req[r].pc = "r_admit"
    /\ runList' = Set(runList, TaskKey(r), req[r].task)
    /\ runOwner' = [runOwner EXCEPT ![TaskKey(r)] = req[r].ctx]
    /\ inst' = [inst EXCEPT ![req[r].ctx] =
                   [NoInst EXCEPT !.pc = "spawned", !.job = req[r].param.JobID,
                                  !.task = req[r].task]]
    /\ Respond(r, "run", TRUE, req[r].param, returnGeneral)
    /\ UNCHANGED <<hb, serving, mu, regList, objs, nobj, nctx, ctxs>>
    /\ sent' = NoSent

\* e.runList.Set(..); go task.Run(..); respond 200; deferred Unlock
RunAdmit(r) ==
    /\ req[r].pc = "r_admit"
    /\ runList' = Set(runList, TaskKey(r), req[r].task)
    /\ runOwner' = [runOwner EXCEPT ![TaskKey(r)] = req[r].ctx]
    /\ inst' = [inst EXCEPT ![req[r].ctx] =
                   [NoInst EXCEPT !.pc = "spawned", !.job = req[r].param.JobID,
                                  !.task = req[r].task]]
    /\ Respond(r, "run", TRUE, req[r].param, returnGeneral)
    /\ mu' = 0
    /\ UNCHANGED <<hb, serving, regList, objs, nobj, nctx, ctxs>>
    /\ sent' = NoSent

\* ----------------------------------------------------------------- killTask
\* A POST /kill is served: Lock, read and parse the body (the Unmarshal error
\* is dropped, a rejected body leaves JobID zero), existence check.
KillBegin(r, body) ==
    /\ serving
    /\ req[r].pc = "idle"
    /\ CanLock(r)
    /\ LET ok == body.ok
           param == body.param
       IN IF ~Exists(runList, Int64ToStr(param.JobID))
          THEN /\ Respond(r, "kill", ok, param, returnKill(500))
               /\ UNCHANGED mu
          ELSE /\ req' = [req EXCEPT ![r] = [IdleReq EXCEPT !.pc = "k_get",
                             !.kind = "kill", !.ok = ok, !.param = param]]
               /\ mu' = r
               /\ out' = NoResp
    /\ UNCHANGED <<hb, serving, regList, runList, objs, nobj, nctx, ctxs, inst, runOwner>>
    /\ sent' = NoSent

\* task := e.runList.Get(..); task.Cancel(); e.runList.Del(..); respond 200.
\* A nil task makes task.Cancel() panic: the deferred Unlock runs and the
\* HTTP server drops the connection without an envelope.
KillFinish(r) ==
    /\ req[r].pc = "k_get"
    /\ LET key == Int64ToStr(req[r].param.JobID)
           task == Get(runList, key)
       IN IF task = NoObj
          THEN /\ Respond(r, "kill", req[r].ok, req[r].param, Panicked)
               /\ UNCHANGED <<ctxs, runList, runOwner>>
          ELSE /\ ctxs' = CallCancel(ctxs, objs[task].Cancel)
               /\ runList' = Del(runList, key)
               /\ runOwner' = [runOwner EXCEPT ![key] = NoCtx]
               /\ Respond(r, "kill", req[r].ok, req[r].param, returnGeneral)
    /\ mu' = 0
    /\ UNCHANGED <<hb, serving, regList, objs, nobj, nctx, inst>>
    /\ sent' = NoSent

\* ------------------------------------------------- Task.Run and e.callback
\* The goroutine starts: Task.Run reads t.Ext and calls the handler with it.
TaskRun(i) ==
    /\ inst[i].pc = "spawned"
    /\ inst' = [inst EXCEPT ![i].pc = "running",
                            ![i].ext = objs[inst[i].task].Ext]
    /\ UNCHANGED <<hb, serving, mu, regList, runList, objs, nobj, nctx, ctxs, req, runOwner>>
    /\ out' = NoResp
    /\ sent' = NoSent

\* The handler returns (of its own accord or after seeing its context done).
HandlerReturn(i) ==
    /\ inst[i].pc = "running"
    /\ inst' = [inst EXCEPT ![i].pc = "returned"]
    /\ UNCHANGED <<hb, serving, mu, regList, runList, objs, nobj, nctx, ctxs, req, runOwner>>
    /\ out' = NoResp
    /\ sent' = NoSent

\* callback, first half: build the body from task.Param and the handler's
\* result code, and post it.  When the post fails res is nil and res.Body
\* panics before the Del is reached; the panic ends this goroutine (Task.Run
\* keeps a fault of one invocation to that invocation).
CallbackPost(i, code, neterr) ==
    /\ inst[i].pc = "returned"
    /\ sent' = [inst |-> i, job |-> inst[i].job,
                jobID |-> objs[inst[i].task].Param.JobID,
                code |-> code, err |-> neterr]
    /\ inst' = [inst EXCEPT ![i] = IF neterr THEN [NoInst EXCEPT !.pc = "panicked"]
                                               ELSE [@ EXCEPT !.pc = "posted"]]
    /\ UNCHANGED <<hb, serving, mu, regList, runList, objs, nobj, nctx, ctxs, req, runOwner>>
    /\ out' = NoResp

\* callback, second half: e.runList.Del(Int64ToStr(task.Id)); the goroutine ends.
CallbackDel(i) ==
    /\ inst[i].pc = "posted"
    /\ LET key == Int64ToStr(objs[inst[i].task].Id)
       IN /\ runList' = Del(runList, key)
          /\ runOwner' = [runOwner EXCEPT ![key] = NoCtx]
    /\ inst' = [inst EXCEPT ![i] = [NoInst EXCEPT !.pc = "done"]]
    /\ UNCHANGED <<hb, serving, mu, regList, objs, nobj, nctx, ctxs, req>>
    /\ out' = NoResp
    /\ sent' = NoSent

\* The timer of a context made by context.WithTimeout fires (cancelling the
\* context stops the timer).
Timeout(c) ==
    /\ c <= nctx
    /\ ctxs[c].deadline /\ ~Done(c)
    /\ ctxs' = [ctxs EXCEPT ![c].expired = TRUE]
    /\ UNCHANGED <<hb, serving, mu, regList, runList, objs, nobj, nctx, inst, req, runOwner>>
    /\ out' = NoResp
    /\ sent' = NoSent

ReqStep(r) ==
    \/ RunFields(r)
    \/ RunExists(r)
    \/ RunOverride(r)
    \/ RunAdmit(r)
    \/ KillFinish(r)

Next ==
    \/ \E n \in Names : RegTask(n)
    \/ Run
    \/ \E r \in Reqs, body \in RunBodies : RunBegin(r, body)
    \/ \E r \in Reqs, body \in KillBodies : KillBegin(r, body)
    \/ \E r \in Reqs : ReqStep(r)
    \/ \E i \in Ctxs : TaskRun(i)
    \/ \E i \in Ctxs : HandlerReturn(i)
    \/ \E i \in Ctxs, code \in Codes, neterr \in BOOLEAN : CallbackPost(i, code, neterr)
    \/ \E i \in Ctxs : CallbackDel(i)
    \/ \E c \in Ctxs : Timeout(c)

Spec == Init /\ [][Next]_vars

\* ------------------------------------------------------------- e.registry
\* The runtime timer of t runs out: the elapsed duration is sent on t.C,
\* which buffers one value (a send on a full channel is dropped).
HbFire ==
    /\ hb.armed
    /\ hb' = [hb EXCEPT !.armed = FALSE,
                        !.tC = IF hb.tC = NoTick THEN hb.dur ELSE @]
    /\ UNCHANGED execVars

\* <-t.C; t.Reset(20 s); the attempt starts: e.post("/api/registry", ..).
HbTick ==
    /\ hb.pc = "wait"
    /\ hb.tC # NoTick
    /\ hb' = [hb EXCEPT !.pc = "post", !.tC = NoTick, !.gap = hb.tC,
                        !.armed = TRUE, !.dur = Interval,
                        !.beats = IF @ < MaxBeat THEN @ + 1 ELSE @]
    /\ UNCHANGED execVars

\* The last MaxBeat outcomes, the latest one last.
Remember(log, outcome) ==
    LET l == Append(log, outcome)
    IN IF Len(l) > MaxBeat THEN Tail(l) ELSE l

\* An attempt after which the loop is left on any failure.
HbResultLeavesLoop(outcome) ==
    /\ hb.pc = "post"
    /\ hb' = [hb EXCEPT !.pc = IF outcome \in HbFailures THEN "exit" ELSE "wait",
                        !.hasReg = @ \/ outcome = "ok",
                        !.log = Remember(@, outcome)]
    /\ UNCHANGED execVars

\* The attempt ends: each failure is logged and the closure returns, a 200
\* sets e.hasReg; either way the for loop goes back to <-t.C.
HbResult(outcome) ==
    /\ hb.pc = "post"
    /\ hb' = [hb EXCEPT !.pc = "wait",
                        !.hasReg = @ \/ outcome = "ok",
                        !.log = Remember(@, outcome)]
    /\ UNCHANGED execVars

HbNext ==
    \/ HbFire
    \/ HbTick
    \/ \E outcome \in HbOutcomes : HbResult(outcome)

\* The runtime fires a timer whose duration has passed, and the scheduler
\* runs the loop when t.C holds a value.  Nothing makes e.post return.
HbFairness == WF_vars(HbFire) /\ WF_vars(HbTick)

HbSpec == Init /\ [][HbNext]_vars /\ HbFairness

\* ------------------------------------------------------------------ claims
\* The goroutine whose admission stored the entry of job j (NoCtx: none).
Owner(j) == runOwner[Int64ToStr(j)]
Registered(name) == name \in Names /\ regList[name] # NoObj

\* C1: mutual exclusion per job identity.  Only the holder of e.mu is inside
\* runTask / killTask, and a run request that has passed the conflict check
\* finds no entry under its job when it admits, so an admission never puts a
\* second instance next to one that is still registered.
MutualExclusion ==
    /\ \A r \in Reqs : req[r].pc # "idle" => mu = r
    /\ \A r \in Reqs : req[r].pc = "r_admit" => ~Exists(runList, TaskKey(r))

\* C1 witness: a run request has passed the conflict check for a job that
\* was admitted before, while an earlier goroutine of that job is still alive.
MutualExclusionWitness ==
    \E r \in Reqs, i \in Ctxs :
        /\ req[r].pc = "r_admit"
        /\ inst[i].pc \in {"spawned", "running", "returned", "posted"}
        /\ inst[i].job = req[r].param.JobID

\* C2: a Discard run request that meets a running job is answered 500 "There
\* are tasks running" and leaves the registered instance as it was admitted:
\* the entry still holds the original job id, context and cancel function, so
\* that a later kill reaches the original's cancellation handle.
DiscardLeavesOriginal ==
    (out.kind = "run" /\ out.msg = "There are tasks running") =>
        LET k == Int64ToStr(out.param.JobID)
            i == runOwner[k]
        IN /\ out.code = 500
           /\ Exists(runList, k)
           /\ i # NoCtx =>
                 /\ objs[Get(runList, k)].Id = out.param.JobID
                 /\ objs[Get(runList, k)].Ext = i
                 /\ objs[Get(runList, k)].Cancel = i

\* C3: the Override step of a run request that meets a registered instance
\* calls the cancel function of that instance's own context exactly once,
\* cancels nothing else, and removes the entry.
OverrideCancelsOriginal ==
    [][\A r \in Reqs :
          (req[r].pc = "r_override" /\ req'[r].pc = "r_admit"
              /\ runOwner[TaskKey(r)] # NoCtx)
          => /\ ctxs' = CallCancel(ctxs, runOwner[TaskKey(r)])
             /\ ~Exists(runList', TaskKey(r))]_vars

\* C4: a run request naming an unregistered task is answered 500 "Task not
\* registered" in the step that serves it, and that step changes neither
\* registry, no Task object, no context and launches no goroutine.
UnregisteredRejected ==
    [][\A r \in Reqs :
          (/\ req[r].pc = "idle"
           /\ \/ req'[r].kind = "run" /\ ~Registered(req'[r].param.ExecutorHandler)
              \/ out'.kind = "run" /\ out'.ok /\ ~Registered(out'.param.ExecutorHandler))
          => /\ out'.kind = "run" /\ out'.code = 500 /\ out'.msg = "Task not registered"
             /\ UNCHANGED <<mu, regList, runList, runOwner, objs, nctx, ctxs, inst>>]_vars

\* C4 witness: the "not registered" answer is given while a job is registered
\* in runList.
UnregisteredRejectedWitness ==
    /\ out.kind = "run" /\ out.msg = "Task not registered"
    /\ \E k \in Keys : Exists(runList, k)

\* The scheduler runs every goroutine that can take a step: a request inside
\* runTask / killTask, a started goroutine, a callback.  A handler may block
\* for ever, a timer need not fire and no request need arrive.
Fairness ==
    /\ \A r \in Reqs : WF_vars(ReqStep(r))
    /\ \A i \in Ctxs : WF_vars(TaskRun(i))
    /\ \A i \in Ctxs : WF_vars(\E code \in Codes, neterr \in BOOLEAN :
                                   CallbackPost(i, code, neterr))
    /\ \A i \in Ctxs : WF_vars(CallbackDel(i))

FairSpec == Init /\ [][Next]_vars /\ Fairness

\* C5: cleanup guarantee.  Once the handler of an admitted instance has
\* returned, the entry that instance stored in runList is eventually gone.
CleanupGuarantee ==
    \A i \in Ctxs :
        (inst[i].pc = "returned") ~> (\A k \in Keys : runOwner[k] # i)

\* C6: kill.  A kill request for a job absent from runList is answered 500
\* and changes nothing; a kill request that finds the job's instance calls
\* the cancel function of that instance's own context (and no other), removes
\* the job from runList and answers 200.
KillCancelsInstance ==
    [][/\ ((\A r \in Reqs : req[r].pc = "idle") /\ out'.kind = "kill"
              /\ ~Exists(runList, Int64ToStr(out'.param.JobID)))
          => /\ out'.code = 500
             /\ UNCHANGED <<mu, regList, runList, runOwner, objs, nctx, ctxs, inst>>
       /\ \A r \in Reqs :
             (req[r].pc = "k_get" /\ req'[r].pc = "idle" /\ req[r].ok
                 /\ Owner(req[r].param.JobID) # NoCtx)
             => /\ out'.code = 200
                /\ ctxs' = CallCancel(ctxs, Owner(req[r].param.JobID))
                /\ ~Exists(runList', Int64ToStr(req[r].param.JobID))]_vars

\* C7: over the lifetime of an admitted instance its context is cancelled
\* exactly once: its cancel function is never called twice, and once the
\* instance has completed and its goroutine has ended the context has been
\* cancelled, by its timer or by a call of its cancel function.  (A kill that
\* follows the timer is not counted as a second cancellation.)
Cancellations(c) == ctxs[c].cancels + (IF ctxs[c].expired THEN 1 ELSE 0)
CancelledExactlyOnce ==
    /\ \A c \in Ctxs : ctxs[c].cancels <= 1
    /\ \A i \in Ctxs : inst[i].pc = "done" => Cancellations(i) >= 1

\* C8: the body posted to /api/callback when an instance's handler has
\* returned carries the job id that instance was admitted for.
CallbackCarriesOwnJob ==
    sent.inst # 0 => sent.jobID = sent.job

\* C9: a request (run or kill) whose body cannot be parsed is answered 500,
\* and no step serving it changes a registry or cancels a context.
MalformedRejected ==
    [][(\/ out'.kind # "none" /\ ~out'.ok
        \/ \E r \in Reqs : req'[r] # req[r] /\ (~req[r].ok \/ ~req'[r].ok))
       => /\ out'.kind # "none" => out'.code = 500
          /\ UNCHANGED <<regList, runList, runOwner, ctxs>>]_vars

\* C10: fire and forget.  The step that admits a run request stores the
\* entry, leaves the new goroutine not yet started, answers 200 and releases
\* e.mu; e.mu is held only by a request inside runTask / killTask, and such a
\* request can always take its next step, whatever the handlers are doing.
FireAndForget ==
    /\ (out.kind = "run" /\ out.code = 200) =>
           /\ mu = 0
           /\ \E i \in Ctxs : /\ inst[i].pc = "spawned"
                              /\ inst[i].job = out.param.JobID
                              /\ Owner(out.param.JobID) = i
                              /\ Exists(runList, Int64ToStr(out.param.JobID))
    /\ mu # 0 => req[mu].pc # "idle"
    /\ \A r \in Reqs : req[r].pc # "idle" => ENABLED ReqStep(r)

\* C10 witness: a run request for one job is admitted and answered while the
\* handler of another job is executing.
FireAndForgetWitness ==
    /\ out.kind = "run" /\ out.code = 200 /\ mu = 0
    /\ \E i \in Ctxs : inst[i].pc = "running" /\ inst[i].job # out.param.JobID

\* C11: a failed delivery of the completion is contained.  The step in which
\* e.post returns an error changes no registry, admits nothing and cancels
\* nothing, and the callback goes on to its removal step: the goroutine is
\* not ended by the failure.
CallbackFailureContained ==
    [][(sent'.inst # 0 /\ sent'.err)
       => /\ inst'[sent'.inst].pc = "posted"
          /\ UNCHANGED <<mu, regList, runList, runOwner, objs, nctx, ctxs, req>>]_vars

\* C12: task definitions are immutable after setup.  Once the server runs
\* (RegTask is no longer called), no step changes regList or a field of a
\* Task object that regList holds.
DefinitionsImmutable ==
    [][serving
       => /\ regList' = regList
          /\ \A n \in Names :
                Exists(regList, n) => objs'[Get(regList, n)] = objs[Get(regList, n)]]_vars

\* C13: heartbeat resilience.  The first registration attempt is released by
\* a timer of duration zero and every later one by a timer of one interval,
\* the loop has no position outside its wait and its attempt, and after an
\* attempt that failed (network error, unreadable body, code other than
\* 200) the loop eventually starts another attempt.
HbFailed == hb.pc = "wait" /\ hb.log # <<>> /\ hb.log[Len(hb.log)] \in HbFailures
HeartbeatResilience ==
    /\ [](/\ hb.pc \in {"wait", "post"}
          /\ hb.beats = 0 => hb.pc = "wait" /\ hb.gap = NoTick
          /\ hb.beats = 1 => hb.gap = 0
          /\ hb.beats > 1 => hb.gap = Interval)
    /\ HbFailed ~> hb.pc = "post"

\* C13 witness: an attempt is under way after each kind of failure has
\* happened.
HeartbeatResilienceWitness ==
    /\ hb.pc = "post"
    /\ hb.log = <<"neterr", "readerr", "code">>

FailSafeDefault ==
    [][\A r \in Reqs :
          (req[r].pc = "r_exists" /\ req'[r] # req[r] /\ Exists(runList, TaskKey(r)))
          => IF req[r].param.ExecutorBlockStrategy = coverEarly
             THEN req'[r].pc = "r_override"
             ELSE /\ out'.kind = "run" /\ out'.code = 500
                  /\ out'.msg = "There are tasks running"
                  /\ out'.param.JobID = req[r].param.JobID
                  /\ UNCHANGED <<runList, runOwner, ctxs, inst>>]_vars

\* C15 witness: a conflicting run request whose blocking strategy is neither
\* the override value nor a known policy has been rejected.
FailSafeDefaultWitness ==
    /\ out.kind = "run" /\ out.msg = "There are tasks running"
    /\ out.param.ExecutorBlockStrategy \in {"", "cover_early"}

\* C16: benign override race.  When the entry of the job is gone by the time
\* an overriding run request looks it up (a callback removed it after the
\* existence check), the override step cancels nothing, removes nothing and
\* raises no error, and the request goes on to its admission, which stores
\* the new instance under the job, launches it and answers 200.
BenignOverrideRace ==
    [][\A r \in Reqs :
          /\ (req[r].pc = "r_override" /\ req'[r] # req[r] /\ ~Exists(runList, TaskKey(r)))
             => /\ req'[r].pc = "r_admit"
                /\ out'.kind = "none"
                /\ UNCHANGED <<mu, runList, runOwner, ctxs, inst>>
          /\ (req[r].pc = "r_admit" /\ req'[r] # req[r] /\ req[r].oldTask = NoObj)
             => /\ out'.kind = "run" /\ out'.code = 200
                /\ Get(runList', Int64ToStr(req[r].param.JobID)) = req[r].task
                /\ inst'[req[r].ctx].pc = "spawned"
                /\ inst'[req[r].ctx].job = req[r].param.JobID]_vars

\* C16 witness: an overriding run request has looked up the job it found
\* registered, got nil, and is about to admit.
BenignOverrideRaceWitness ==
    \E r \in Reqs : req[r].pc = "r_admit" /\ req[r].oldTask = NoObj

\* The step is taken on behalf of the job with key k: by a request for that
\* job (entering, moving on or being answered) or by a goroutine admitted
\* for it.
ActsOn(k) ==
    \/ \E r \in Reqs : /\ req[r].pc # "idle" /\ req'[r] # req[r]
                        /\ Int64ToStr(req[r].param.JobID) = k
    \/ \E r \in Reqs : /\ req[r].pc = "idle" /\ req'[r].pc # "idle"
                        /\ Int64ToStr(req'[r].param.JobID) = k
    \/ out'.kind # "none" /\ Int64ToStr(out'.param.JobID) = k
    \/ \E i \in Ctxs : /\ inst[i].pc # "none" /\ inst'[i] # inst[i]
                        /\ Int64ToStr(inst[i].job) = k

\* C17: independence of different jobs.  A step taken on behalf of another
\* job (its admission, its kill, its completion) leaves the entry of a
\* registered job in runList, does not call the cancel function of that
\* job's context and does not replace the cancel function its entry holds.
JobsIndependent ==
    [][\A k \in Keys :
          (runOwner[k] # NoCtx /\ ~ActsOn(k))
          => /\ runList'[k] = runList[k]
             /\ ctxs'[runOwner[k]].cancels = ctxs[runOwner[k]].cancels
             /\ objs'[Get(runList, k)].Cancel = objs[Get(runList, k)].Cancel]_vars

\* C18: a stale completion does not evict the successor.  When a goroutine
\* admitted for a job ends its callback while the job's entry in runList was
\* stored by a later admission of the same job, the entry stays.
StaleCompletionKeepsSuccessor ==
    [][\A i \in Ctxs :
          (inst[i].pc = "posted" /\ inst'[i].pc = "done")
          => LET k == Int64ToStr(inst[i].job)
             IN (Owner(inst[i].job) # NoCtx /\ Owner(inst[i].job) # i)
                => runList'[k] = runList[k]]_vars

\* C19: a newly admitted instance starts uncancelled.  When a run request is
\* about to admit (store the entry and launch the goroutine), the cancel
\* function of the context it created has not been called: neither its own
\* override step nor anything else has cancelled the new instance.
NewInstanceUncancelled ==
    \A r \in Reqs : req[r].pc = "r_admit" => ctxs[req[r].ctx].cancels = 0

\* C20: a kill racing with completion is safe.  When the entry of the job is
\* gone by the time a kill request looks it up (a callback removed it after
\* the existence check), the request calls no cancel function, is answered
\* with an envelope of code 200 or 500, and leaves runList without the job.
KillRaceSafe ==
    [][\A r \in Reqs :
          LET key == Int64ToStr(req[r].param.JobID)
          IN (/\ req[r].pc = "k_get" /\ req[r].ok /\ req'[r] # req[r]
                 /\ ~Exists(runList, key))
             => /\ out'.kind = "kill" /\ out'.code \in {200, 500}
                /\ ctxs' = ctxs
                /\ ~Exists(runList', key)]_vars
====
